---- MODULE Spec2Model ----
(***************************************************************************)
(* LibCanComm (cancomm.c): a context that owns one raw SocketCAN socket.   *)
(* The model holds the context's fields, the kernel's descriptor table and *)
(* a record of the last public call (its inputs, its return value and the  *)
(* system calls it made, in order).                                        *)
(*                                                                         *)
(* A uint32_t is held as the pair <<high 16 bits, low 16 bits>>, so that   *)
(* the conversions between int and uint32_t are computed on the halves.    *)
(***************************************************************************)
EXTENDS Integers, Sequences, FiniteSets, TLC

(***************************************************************************)
(* Bounds of the model.                                                    *)
(***************************************************************************)
\* number of descriptors the process may hold open at once
MaxFds == 3
\* frames a socket's receive queue holds
MaxQueue == 2
\* width, in bits, of the model's clock word
TimeBits == 1

(***************************************************************************)
(* Program constants.                                                      *)
(***************************************************************************)
CANCOMM_TRUE == 1
CANCOMM_FALSE == 0
CANCOMM_FLAG_CANFD_MSG == 1
CANCOMM_FLAG_CANERR_MSG == 128
\* sizeof(struct can_frame) and sizeof(struct canfd_frame)
CAN_MTU == 16
CANFD_MTU == 72
CAN_MAX_DLEN == 8
CANFD_MAX_DLEN == 64
\* canfd_frame.flags bit: bit rate switch
CANFD_BRS == 1

\* 2^16: a uint32_t is held as two 16-bit halves
Half == 2^16
\* (uint32_t)i for an int i of small magnitude
ToUint32(i) == IF i >= 0 THEN <<i \div Half, i % Half>>
               ELSE <<(Half - 1) - ((-i - 1) \div Half), (Half - 1) - ((-i - 1) % Half)>>
\* (int)u for a uint32_t u (two's complement)
ToInt32(u) == IF u[1] >= Half \div 2 THEN (u[1] - Half) * Half + u[2]
              ELSE u[1] * Half + u[2]
\* a < b on uint32_t operands
U32Less(a, b) == \/ a[1] < b[1]
                 \/ a[1] = b[1] /\ a[2] < b[2]
U32Zero == <<0, 0>>
\* #define CANCOMM_INVALID_SOCKET (-1), converted to uint32_t where it is
\* compared with or assigned to cancomm_ctx.socket
CANCOMM_INVALID_SOCKET == ToUint32(-1)


(***************************************************************************)
(* The kernel: the process's descriptor table and the system calls the     *)
(* library makes.  A call on a descriptor that is not open fails (EBADF);  *)
(* on an open descriptor its outcome is an input (ok).                     *)
(***************************************************************************)
Fds == 3..(2 + MaxFds)
\* interfaces the system may know, by interface index
IfNames == <<"can0", "vcan0", "eth0">>
IfIndex(name) == CHOOSE i \in 1..Len(IfNames) : IfNames[i] = name
\* rxq: the frames the kernel has queued on the socket for read()
ClosedSock == [open |-> FALSE, flags |-> {}, bound |-> 0, fd_frames |-> FALSE,
               rxq |-> <<>>]
FreshSock == [open |-> TRUE, flags |-> {"O_RDWR"}, bound |-> 0, fd_frames |-> FALSE,
              rxq |-> <<>>]
IsOpen(tab, fd) == fd \in Fds /\ tab[fd].open
OpenFds(tab) == {fd \in Fds : tab[fd].open}
Min(S) == CHOOSE x \in S : \A y \in S : x <= y

\* socket(PF_CAN, SOCK_RAW, CAN_RAW): the lowest free descriptor, or -1
SysSocket(tab, ok) ==
  LET free == Fds \ OpenFds(tab) IN
  IF ok /\ free # {}
  THEN [ret |-> Min(free), tab |-> [tab EXCEPT ![Min(free)] = FreshSock]]
  ELSE [ret |-> -1, tab |-> tab]
\* close(fd)
SysClose(tab, fd) ==
  IF IsOpen(tab, fd)
  THEN [ret |-> 0, tab |-> [tab EXCEPT ![fd] = ClosedSock]]
  ELSE [ret |-> -1, tab |-> tab]
\* ioctl(fd, SIOCGIFMTU, &ifr): ifr.ifr_mtu on success
SysIoctlMtu(tab, fd, ok, mtu) ==
  IF IsOpen(tab, fd) /\ ok THEN [ret |-> 0, mtu |-> mtu] ELSE [ret |-> -1, mtu |-> 0]
\* setsockopt(fd, SOL_CAN_RAW, CAN_RAW_FD_FRAMES, &on, sizeof(on))
SysSetsockoptFdFrames(tab, fd, ok) ==
  IF IsOpen(tab, fd) /\ ok
  THEN [ret |-> 0, tab |-> [tab EXCEPT ![fd].fd_frames = TRUE]]
  ELSE [ret |-> -1, tab |-> tab]
\* fcntl(fd, F_GETFL, 0)
SysFcntlGetfl(tab, fd, ok) ==
  IF IsOpen(tab, fd) /\ ok THEN [ret |-> 0, flags |-> tab[fd].flags]
  ELSE [ret |-> -1, flags |-> {}]
\* fcntl(fd, F_SETFL, flags)
SysFcntlSetfl(tab, fd, flags, ok) ==
  IF IsOpen(tab, fd) /\ ok
  THEN [ret |-> 0, tab |-> [tab EXCEPT ![fd].flags = flags]]
  ELSE [ret |-> -1, tab |-> tab]
\* ioctl(fd, SIOCGIFINDEX, &ifr): ifr.ifr_ifindex on success
SysIoctlIndex(tab, fd, name, ok) ==
  IF IsOpen(tab, fd) /\ ok THEN [ret |-> 0, ifindex |-> IfIndex(name)]
  ELSE [ret |-> -1, ifindex |-> 0]
\* bind(fd, &addr, sizeof(addr)) with addr.can_ifindex = ifindex
SysBind(tab, fd, ifindex, ok) ==
  IF IsOpen(tab, fd) /\ ok
  THEN [ret |-> 0, tab |-> [tab EXCEPT ![fd].bound = ifindex]]
  ELSE [ret |-> -1, tab |-> tab]

(***************************************************************************)
(* The record of one system call of the current public call: its name, the *)
(* descriptor it was made on (for socket: the descriptor returned), its    *)
(* return value and a value it carried (MTU read, bytes asked for, ...).   *)
(***************************************************************************)
Ev(call, fd, ret, val) == [call |-> call, fd |-> fd, ret |-> ret, val |-> val]
Log(m, e) == [m EXCEPT !.trace = Append(@, e)]

(***************************************************************************)
(* struct cancomm_ctx and cancomm_new.                                     *)
(***************************************************************************)
Times == 0..(2^TimeBits - 1)
NewCtx == [socket |-> CANCOMM_INVALID_SOCKET, fd_enabled |-> CANCOMM_FALSE,
           connectTime |-> 0, devices_cnt |-> 0, devices_list |-> <<>>]

\* mutant: disconnect closes the socket and keeps the handle
cancomm_disconnect_NoReset(m) ==
  IF m.ctx.socket # CANCOMM_INVALID_SOCKET
  THEN LET fd == ToInt32(m.ctx.socket)
           r == SysClose(m.tab, fd)
       IN [Log(m, Ev("close", fd, r.ret, 0)) EXCEPT !.tab = r.tab]
  ELSE m

\* mutant: disconnect also forgets the framing and the time of the connect
cancomm_disconnect_Forget(m) ==
  IF m.ctx.socket # CANCOMM_INVALID_SOCKET
  THEN LET fd == ToInt32(m.ctx.socket)
           r == SysClose(m.tab, fd)
       IN [Log(m, Ev("close", fd, r.ret, 0)) EXCEPT
             !.tab = r.tab, !.ctx.socket = CANCOMM_INVALID_SOCKET,
             !.ctx.fd_enabled = CANCOMM_FALSE, !.ctx.connectTime = 0]
  ELSE m

(***************************************************************************)
(* cancomm_disconnect, on the running record m of a call: m.ctx the        *)
(* context, m.tab the descriptor table, m.trace the system calls so far.   *)
(***************************************************************************)
cancomm_disconnect(m) ==
  IF m.ctx.socket # CANCOMM_INVALID_SOCKET
  THEN LET fd == ToInt32(m.ctx.socket)
           r == SysClose(m.tab, fd)
       IN [Log(m, Ev("close", fd, r.ret, 0)) EXCEPT
             !.tab = r.tab, !.ctx.socket = CANCOMM_INVALID_SOCKET]
  ELSE m

(***************************************************************************)
(* cancomm_connect, step by step.  m.result is the local `result`; env     *)
(* holds the outcomes of the system calls of this call.                    *)
(***************************************************************************)
\* gettimeofday and the store of connectTime
ConnectTime(m, env) ==
  IF env.timeOk
  THEN [Log(m, Ev("gettimeofday", 0, 0, env.now)) EXCEPT !.ctx.connectTime = env.now]
  ELSE [Log(m, Ev("gettimeofday", 0, -1, 0)) EXCEPT !.result = CANCOMM_FALSE]

\* currentCtx->socket = socket(...), then the test `< 0` on the uint32_t field
ConnectSocket(m, env) ==
  IF m.result = CANCOMM_TRUE
  THEN LET r == SysSocket(m.tab, env.sockOk)
           s == ToUint32(r.ret)
       IN [Log(m, Ev("socket", r.ret, r.ret, 0)) EXCEPT
             !.tab = r.tab, !.ctx.socket = s,
             !.result = IF U32Less(s, U32Zero) THEN CANCOMM_FALSE ELSE @]
  ELSE m

\* mutant: the flag follows the MTU alone, whatever setsockopt answers
ConnectFdMode_KeepOnReject(m, device, env) ==
  IF m.result = CANCOMM_TRUE
  THEN LET fd == ToInt32(m.ctx.socket)
           q == SysIoctlMtu(m.tab, fd, env.mtuOk, env.mtu)
           deviceMtu == IF q.ret >= 0 /\ (q.mtu = CAN_MTU \/ q.mtu = CANFD_MTU)
                        THEN q.mtu ELSE CAN_MTU
           m1 == [Log(m, Ev("ioctl_mtu", fd, q.ret, q.mtu)) EXCEPT
                    !.ctx.fd_enabled = IF deviceMtu = CANFD_MTU
                                       THEN CANCOMM_TRUE ELSE CANCOMM_FALSE]
           o == SysSetsockoptFdFrames(m1.tab, fd, env.optOk)
       IN IF m1.ctx.fd_enabled = CANCOMM_TRUE
          THEN [Log(m1, Ev("setsockopt_fd", fd, o.ret, 0)) EXCEPT !.tab = o.tab]
          ELSE m1
  ELSE m
\* mutant: a rejected option fails the connect
ConnectFdMode_FailOnReject(m, device, env) ==
  IF m.result = CANCOMM_TRUE
  THEN LET fd == ToInt32(m.ctx.socket)
           q == SysIoctlMtu(m.tab, fd, env.mtuOk, env.mtu)
           deviceMtu == IF q.ret >= 0 /\ (q.mtu = CAN_MTU \/ q.mtu = CANFD_MTU)
                        THEN q.mtu ELSE CAN_MTU
           m1 == [Log(m, Ev("ioctl_mtu", fd, q.ret, q.mtu)) EXCEPT
                    !.ctx.fd_enabled = IF deviceMtu = CANFD_MTU
                                       THEN CANCOMM_TRUE ELSE CANCOMM_FALSE]
           o == SysSetsockoptFdFrames(m1.tab, fd, env.optOk)
       IN IF m1.ctx.fd_enabled = CANCOMM_TRUE
          THEN [Log(m1, Ev("setsockopt_fd", fd, o.ret, 0)) EXCEPT
                  !.tab = o.tab,
                  !.ctx.fd_enabled = IF o.ret # 0 THEN CANCOMM_FALSE ELSE @,
                  !.result = IF o.ret # 0 THEN CANCOMM_FALSE ELSE @]
          ELSE m1
  ELSE m
\* the MTU query and the switch of the socket into CAN FD mode
ConnectFdMode(m, device, env) ==
  IF m.result = CANCOMM_TRUE
  THEN LET fd == ToInt32(m.ctx.socket)
           q == SysIoctlMtu(m.tab, fd, env.mtuOk, env.mtu)
           deviceMtu == IF q.ret >= 0 /\ (q.mtu = CAN_MTU \/ q.mtu = CANFD_MTU)
                        THEN q.mtu ELSE CAN_MTU
           m1 == [Log(m, Ev("ioctl_mtu", fd, q.ret, q.mtu)) EXCEPT
                    !.ctx.fd_enabled = IF deviceMtu = CANFD_MTU
                                       THEN CANCOMM_TRUE ELSE CANCOMM_FALSE]
           o == SysSetsockoptFdFrames(m1.tab, fd, env.optOk)
       IN IF m1.ctx.fd_enabled = CANCOMM_TRUE
          THEN [Log(m1, Ev("setsockopt_fd", fd, o.ret, 0)) EXCEPT
                  !.tab = o.tab,
                  !.ctx.fd_enabled = IF o.ret # 0 THEN CANCOMM_FALSE ELSE @]
          ELSE m1
  ELSE m

\* mutant: the error path resets the handle without closing the socket
ConnectAbort_NoClose(m) ==
  [m EXCEPT !.ctx.socket = CANCOMM_INVALID_SOCKET, !.result = CANCOMM_FALSE]
\* mutant: the error path closes the socket and keeps the handle
ConnectAbort_NoReset(m) ==
  LET fd == ToInt32(m.ctx.socket)
      r == SysClose(m.tab, fd)
  IN [Log(m, Ev("close", fd, r.ret, 0)) EXCEPT !.tab = r.tab, !.result = CANCOMM_FALSE]
\* close the socket, reset the handle, fail: the error path of the last steps
ConnectAbort(m) ==
  LET fd == ToInt32(m.ctx.socket)
      r == SysClose(m.tab, fd)
  IN [Log(m, Ev("close", fd, r.ret, 0)) EXCEPT
        !.tab = r.tab, !.ctx.socket = CANCOMM_INVALID_SOCKET,
        !.result = CANCOMM_FALSE]

\* mutant: a failed F_SETFL is ignored
ConnectNonBlock_IgnoreFailure(m, env) ==
  IF m.result = CANCOMM_TRUE
  THEN LET fd == ToInt32(m.ctx.socket)
           g == SysFcntlGetfl(m.tab, fd, env.getflOk)
           flags == IF g.ret = -1 THEN {} ELSE g.flags
           m1 == Log(m, Ev("fcntl_getfl", fd, g.ret, 0))
           f == SysFcntlSetfl(m1.tab, fd, flags \cup {"O_NONBLOCK"}, env.setflOk)
       IN [Log(m1, Ev("fcntl_setfl", fd, f.ret, 0)) EXCEPT !.tab = f.tab]
  ELSE m
\* mutant: the socket is left in blocking mode
ConnectNonBlock_Skip(m, env) == m
\* fcntl F_GETFL, then F_SETFL with O_NONBLOCK added
ConnectNonBlock(m, env) ==
  IF m.result = CANCOMM_TRUE
  THEN LET fd == ToInt32(m.ctx.socket)
           g == SysFcntlGetfl(m.tab, fd, env.getflOk)
           flags == IF g.ret = -1 THEN {} ELSE g.flags
           m1 == Log(m, Ev("fcntl_getfl", fd, g.ret, 0))
           f == SysFcntlSetfl(m1.tab, fd, flags \cup {"O_NONBLOCK"}, env.setflOk)
           m2 == [Log(m1, Ev("fcntl_setfl", fd, f.ret, 0)) EXCEPT !.tab = f.tab]
       IN IF f.ret = -1 THEN ConnectAbort(m2) ELSE m2
  ELSE m

\* ioctl SIOCGIFINDEX; the index read is kept in m.ifindex
ConnectIndex(m, device, env) ==
  IF m.result = CANCOMM_TRUE
  THEN LET fd == ToInt32(m.ctx.socket)
           q == SysIoctlIndex(m.tab, fd, device, env.idxOk)
           m1 == [Log(m, Ev("ioctl_index", fd, q.ret, q.ifindex)) EXCEPT
                    !.ifindex = q.ifindex]
       IN IF q.ret < 0 THEN ConnectAbort(m1) ELSE m1
  ELSE m

\* bind to the interface index
ConnectBind(m, env) ==
  IF m.result = CANCOMM_TRUE
  THEN LET fd == ToInt32(m.ctx.socket)
           b == SysBind(m.tab, fd, m.ifindex, env.bindOk)
           m1 == [Log(m, Ev("bind", fd, b.ret, m.ifindex)) EXCEPT !.tab = b.tab]
       IN IF b.ret < 0 THEN ConnectAbort(m1) ELSE m1
  ELSE m

\* mutant: connect does not disconnect first
ConnectDisconnect_Skip(m) == m
\* the disconnect that opens cancomm_connect
ConnectDisconnect(m) == cancomm_disconnect(m)

cancomm_connect(c, tab, device, env) ==
  LET m0 == [ctx |-> c, tab |-> tab, trace |-> <<>>,
             result |-> CANCOMM_TRUE, ifindex |-> 0]
      m1 == ConnectDisconnect(m0)
      m2 == ConnectTime(m1, env)
      m3 == ConnectSocket(m2, env)
      m4 == ConnectFdMode(m3, device, env)
      m5 == ConnectNonBlock(m4, env)
      m6 == ConnectIndex(m5, device, env)
  IN ConnectBind(m6, env)

\* The outcomes of the system calls of one connect.  A call that is not
\* reached (after a step that ends the connect) has no outcome to choose, so
\* its field is held at a fixed value.
ConnectEnv(timeOk, now, sockOk, mtuOk, mtu, optOk, getflOk, setflOk, idxOk, bindOk) ==
  [timeOk |-> timeOk, now |-> now, sockOk |-> sockOk, mtuOk |-> mtuOk, mtu |-> mtu,
   optOk |-> optOk, getflOk |-> getflOk, setflOk |-> setflOk, idxOk |-> idxOk,
   bindOk |-> bindOk]
\* query outcome: <<mtuOk, mtu, optOk>>
MtuOutcomes == {<<FALSE, CAN_MTU, TRUE>>, <<TRUE, CAN_MTU, TRUE>>, <<TRUE, 1500, TRUE>>,
                <<TRUE, CANFD_MTU, TRUE>>, <<TRUE, CANFD_MTU, FALSE>>}
\* <<setflOk, idxOk, bindOk>>
TailOutcomes == {<<FALSE, TRUE, TRUE>>, <<TRUE, FALSE, TRUE>>, <<TRUE, TRUE, FALSE>>,
                 <<TRUE, TRUE, TRUE>>}
\* the earliest and the latest reading of the clock
ConnectTimes == {0, 2^TimeBits - 1}
ConnectEnvs ==
  {ConnectEnv(FALSE, 0, TRUE, TRUE, CAN_MTU, TRUE, TRUE, TRUE, TRUE, TRUE)}
  \cup {ConnectEnv(TRUE, now, FALSE, TRUE, CAN_MTU, TRUE, TRUE, TRUE, TRUE, TRUE) :
          now \in ConnectTimes}
  \cup {ConnectEnv(TRUE, x[1], TRUE, x[2][1], x[2][2], x[2][3], x[3], x[4][1], x[4][2], x[4][3]) :
          x \in ConnectTimes \X MtuOutcomes \X BOOLEAN \X TailOutcomes}
ConnectDevices == {"can0", "vcan0"}

\* mutant: free releases the memory without disconnecting
cancomm_free_NoDisconnect(c, tab) ==
  LET m0 == [ctx |-> c, tab |-> tab, trace |-> <<>>,
             result |-> CANCOMM_FALSE, ifindex |-> 0]
      m2 == IF m0.ctx.devices_list # <<>>
            THEN [Log(m0, Ev("free_list", 0, 0, 0)) EXCEPT
                    !.ctx.devices_list = <<>>, !.ctx.devices_cnt = 0]
            ELSE m0
  IN Log(m2, Ev("free_ctx", 0, 0, 0))
\* cancomm_free: disconnect, release the device list, release the context
cancomm_free(c, tab) ==
  LET m0 == [ctx |-> c, tab |-> tab, trace |-> <<>>,
             result |-> CANCOMM_FALSE, ifindex |-> 0]
      m1 == cancomm_disconnect(m0)
      m2 == IF m1.ctx.devices_list # <<>>
            THEN [Log(m1, Ev("free_list", 0, 0, 0)) EXCEPT
                    !.ctx.devices_list = <<>>, !.ctx.devices_cnt = 0]
            ELSE m1
  IN Log(m2, Ev("free_ctx", 0, 0, 0))

(***************************************************************************)
(* cancomm_sanitize_frame_len: the two lookup tables, as in the source.    *)
(***************************************************************************)
Rep(n, v) == [i \in 1..n |-> v]
\* mutant: lengths 33 to 40 fall in the run of dlc 13
len2dlc_LongRun == <<0, 1, 2, 3, 4, 5, 6, 7, 8>> \o Rep(4, 9) \o Rep(4, 10) \o Rep(4, 11)
                   \o Rep(4, 12) \o Rep(16, 13) \o Rep(8, 14) \o Rep(16, 15)
len2dlc == <<0, 1, 2, 3, 4, 5, 6, 7, 8>> \o Rep(4, 9) \o Rep(4, 10) \o Rep(4, 11)
           \o Rep(4, 12) \o Rep(8, 13) \o Rep(16, 14) \o Rep(16, 15)
dlc2len == <<0, 1, 2, 3, 4, 5, 6, 7, 8, 12, 16, 20, 24, 32, 48, 64>>
cancomm_sanitize_frame_len(len) ==
  LET frame_len == IF len > CANFD_MAX_DLEN THEN CANFD_MAX_DLEN ELSE len
      frame_dlc == len2dlc[frame_len + 1]
  IN dlc2len[frame_dlc + 1]

(***************************************************************************)
(* cancomm_transmit.  A frame is struct canfd_frame: can_id, len, flags    *)
(* and the 64 data bytes; write() hands the kernel its first `size` bytes. *)
(***************************************************************************)
\* bytes of struct canfd_frame before data[]
CanHeaderSize == CAN_MTU - CAN_MAX_DLEN
\* CAN_EFF_FLAG 0x80000000, CAN_RTR_FLAG 0x40000000, CAN_ERR_FLAG 0x20000000,
\* as bits of the high half of can_id
EffBit == 2^15
RtrBit == 2^14
ErrBit == 2^13
HasBit(u, bit) == (u[1] \div bit) % 2 = 1
SetBit(u, bit) == IF HasBit(u, bit) THEN u ELSE <<u[1] + bit, u[2]>>
ClearBit(u, bit) == IF HasBit(u, bit) THEN <<u[1] - bit, u[2]>> ELSE u
\* flags & mask, for a mask of one bit
FlagSet(flags, mask) == (flags \div mask) % 2 = 1
\* struct canfd_frame canTxFrame = { 0 }
ZeroFrame == [can_id |-> U32Zero, len |-> 0, flags |-> 0,
              data |-> [i \in 1..CANFD_MAX_DLEN |-> 0]]
\* the first `size` bytes of a frame, as the kernel sees them
Wire(frame, size) == [frame EXCEPT !.data = SubSeq(frame.data, 1, size - CanHeaderSize)]
\* a - b on the clock word
TimeSub(a, b) == (a - b) % (2^TimeBits)
\* mutant: the reading of the clock is reported as it is
Timestamp_Absolute(ok, t, c) == IF ok THEN t ELSE 0
\* *timestamp = 0, and once the clock was read (ok, t) the reading less
\* connectTime
Timestamp(ok, t, c) == IF ok THEN TimeSub(t, c.connectTime) ELSE 0

\* write(fd, &frame, size): a raw CAN socket takes a whole frame of CAN_MTU
\* bytes, or of CANFD_MTU bytes once CAN_RAW_FD_FRAMES is on; out is the
\* outcome on an open socket: "full", "short" or "error"
SysWrite(tab, fd, size, out) ==
  IF /\ IsOpen(tab, fd)
     /\ size = CAN_MTU \/ (size = CANFD_MTU /\ tab[fd].fd_frames)
     /\ out # "error"
  THEN IF out = "full" THEN size ELSE size \div 2
  ELSE -1

\* mutant: the caller's flag alone selects CAN FD
TransmitMode_FlagOnly(c, flags) ==
  IF FlagSet(flags, CANCOMM_FLAG_CANFD_MSG)
  THEN <<CANFD_MAX_DLEN, CANFD_MTU, CANFD_BRS>>
  ELSE <<CAN_MAX_DLEN, CAN_MTU, 0>>
\* mutant: CAN FD frames go out without the bit rate switch
TransmitMode_NoBrs(c, flags) ==
  IF c.fd_enabled # 0 /\ FlagSet(flags, CANCOMM_FLAG_CANFD_MSG)
  THEN <<CANFD_MAX_DLEN, CANFD_MTU, 0>>
  ELSE <<CAN_MAX_DLEN, CAN_MTU, 0>>
\* the choice between CAN classic and CAN FD: <<frameLenMax, frameSizeMax, flags>>
TransmitMode(c, flags) ==
  IF c.fd_enabled # 0 /\ FlagSet(flags, CANCOMM_FLAG_CANFD_MSG)
  THEN <<CANFD_MAX_DLEN, CANFD_MTU, CANFD_BRS>>
  ELSE <<CAN_MAX_DLEN, CAN_MTU, 0>>

\* mutant: the frame carries the length as the caller gave it
TransmitFrame_RawLen(id, ext, len, data, brs) ==
  [can_id |-> IF ext = CANCOMM_TRUE THEN SetBit(id, EffBit) ELSE id,
   len |-> len,
   flags |-> brs,
   data |-> [i \in 1..CANFD_MAX_DLEN |-> IF i <= len THEN data[i] ELSE 0]]
\* mutant: the extended marker is never set
TransmitFrame_NoEff(id, ext, len, data, brs) ==
  [can_id |-> id,
   len |-> cancomm_sanitize_frame_len(len),
   flags |-> brs,
   data |-> [i \in 1..CANFD_MAX_DLEN |-> IF i <= len THEN data[i] ELSE 0]]
\* the frame handed to write()
TransmitFrame(id, ext, len, data, brs) ==
  [can_id |-> IF ext = CANCOMM_TRUE THEN SetBit(id, EffBit) ELSE id,
   len |-> cancomm_sanitize_frame_len(len),
   flags |-> brs,
   data |-> [i \in 1..CANFD_MAX_DLEN |-> IF i <= len THEN data[i] ELSE 0]]

\* mutant: any byte written counts as a frame sent
WriteDone_AnyBytes(w, size) == w > 0
\* whether write() took the whole frame
WriteDone(w, size) == w = size

\* a is the call's arguments, env the outcomes of its system calls; the
\* result holds the return value, the timestamp output (written only when
\* tsSet) and the frame handed to write()
cancomm_transmit(c, tab, a, env) ==
  LET none == [result |-> CANCOMM_FALSE, trace |-> <<>>, frame |-> ZeroFrame,
               size |-> 0, timestamp |-> 0, tsSet |-> FALSE]
      mode == TransmitMode(c, a.flags)
      frame == TransmitFrame(a.id, a.ext, a.len, a.data, mode[3])
      fd == ToInt32(c.socket)
      w == SysWrite(tab, fd, mode[2], env.write)
      wrote == [none EXCEPT !.trace = <<Ev("write", fd, w, mode[2])>>,
                            !.frame = frame, !.size = mode[2]]
  IN IF a.len <= CANFD_MAX_DLEN /\ c.socket # CANCOMM_INVALID_SOCKET /\ a.len <= mode[1]
     THEN IF WriteDone(w, mode[2])
          THEN [wrote EXCEPT
                  !.trace = Append(@, Ev("gettimeofday", 0,
                                         IF env.timeOk THEN 0 ELSE -1, env.now)),
                  !.timestamp = Timestamp(env.timeOk, env.now, c),
                  !.tsSet = TRUE,
                  !.result = CANCOMM_TRUE]
          ELSE wrote
     ELSE none

(***************************************************************************)
(* cancomm_receive.  An entry of a socket's receive queue is the frame,    *)
(* its size on the wire (CAN_MTU or CANFD_MTU) and, for a frame that came  *)
(* from cancomm_transmit over the loopback, the arguments of that call     *)
(* (history: sent, src).                                                   *)
(***************************************************************************)
NoArgs == [id |-> U32Zero, ext |-> 0, len |-> 0, data |-> <<>>, flags |-> 0]
RxEntry(frame, size) == [frame |-> frame, size |-> size, sent |-> FALSE, src |-> NoArgs]

\* canRxFrame = { 0 } after read() stored n bytes of frame in it
ReadInto(frame, n) ==
  [frame EXCEPT !.data = [i \in 1..CANFD_MAX_DLEN |->
                            IF i <= n - CanHeaderSize THEN frame.data[i] ELSE 0]]

\* read(fd, &canRxFrame, CANFD_MTU) on a raw CAN socket.  With a frame
\* queued, out is the outcome: "frame" (the whole frame), "short" (a part of
\* it; the rest of the datagram is dropped) or "error".  With none queued a
\* non-blocking socket answers -1 at once; a blocking one waits for the next
\* frame of the bus, arriving (blocked says that the call waited).
SysRead(tab, fd, out, arriving) ==
  LET none == [ret |-> -1, frame |-> ZeroFrame, tab |-> tab, blocked |-> FALSE,
               entry |-> RxEntry(ZeroFrame, 0)]
      q == tab[fd].rxq
      e == Head(q)
      popped == [tab EXCEPT ![fd].rxq = Tail(q)]
  IN IF ~IsOpen(tab, fd) THEN none
     ELSE IF q # <<>>
     THEN CASE out = "frame" ->
                 [none EXCEPT !.ret = e.size, !.frame = ReadInto(e.frame, e.size),
                              !.tab = popped,
                              !.entry = e]
            [] out = "short" ->
                 [none EXCEPT !.ret = e.size \div 2, !.tab = popped, !.entry = e,
                              !.frame = ReadInto(e.frame, e.size \div 2)]
            [] OTHER -> none
     ELSE IF "O_NONBLOCK" \in tab[fd].flags THEN none
     ELSE [none EXCEPT !.ret = arriving.size,
                       !.frame = ReadInto(arriving.frame, arriving.size),
                       !.blocked = TRUE, !.entry = arriving]

\* frameSize == n, frameSize being the size_t that holds read()'s result: a
\* negative result converts to a value above every frame size
SizeEq(r, n) == r >= 0 /\ r = n

\* the outputs of receive: their values, and which of them the call wrote
NoOut == [id |-> U32Zero, ext |-> 0, len |-> 0, data |-> <<>>, flags |-> 0,
          timestamp |-> 0, written |-> {}]

\* mutant: an error frame is flagged, the other outputs are left alone
ReceiveError_FlagOnly(o) ==
  [o EXCEPT !.flags = o.flags + CANCOMM_FLAG_CANERR_MSG]
\* the store of an error frame
ReceiveError(o) ==
  [o EXCEPT !.flags = o.flags + CANCOMM_FLAG_CANERR_MSG, !.id = U32Zero,
            !.ext = CANCOMM_FALSE, !.len = 0,
            !.written = @ \cup {"id", "ext", "len"}]

\* canRxFrame.data[idx] for idx = i - 1: past the 64 bytes of the array the
\* loop reads whatever lies behind the frame on the stack, junk
RxByte(f, i, junk) == IF i <= CANFD_MAX_DLEN THEN f.data[i] ELSE junk

\* mutant: the identifier is handed out with its marker bits
ReceiveData_RawId(o, f, frameSize, junk) ==
  [o EXCEPT !.flags = IF frameSize = CANFD_MTU
                      THEN o.flags + CANCOMM_FLAG_CANFD_MSG ELSE o.flags,
            !.ext = IF HasBit(f.can_id, EffBit) THEN CANCOMM_TRUE ELSE CANCOMM_FALSE,
            !.id = f.can_id,
            !.len = f.len,
            !.data = [i \in 1..f.len |-> RxByte(f, i, junk)],
            !.written = @ \cup {"id", "ext", "len", "data"}]
\* the copy of a data frame of frameSize bytes
ReceiveData(o, f, frameSize, junk) ==
  [o EXCEPT !.flags = IF frameSize = CANFD_MTU
                      THEN o.flags + CANCOMM_FLAG_CANFD_MSG ELSE o.flags,
            !.ext = IF HasBit(f.can_id, EffBit) THEN CANCOMM_TRUE ELSE CANCOMM_FALSE,
            !.id = ClearBit(f.can_id, EffBit),
            !.len = f.len,
            !.data = [i \in 1..f.len |-> RxByte(f, i, junk)],
            !.written = @ \cup {"id", "ext", "len", "data"}]

\* what follows an accepted read of a frame that is no remote frame; env
\* holds the outcome of SIOCGSTAMP and the byte found behind the frame
ReceiveDecode(c, f, frameSize, env) ==
  LET o == [NoOut EXCEPT
              !.timestamp = Timestamp(env.stampOk, env.stamp, c),
              !.written = {"flags", "timestamp"}]
  IN IF HasBit(f.can_id, ErrBit) THEN ReceiveError(o)
     ELSE ReceiveData(o, f, frameSize, env.junk)

\* mutant: any bytes read count as a frame
ReceiveAccepts_AnyBytes(f, frameSize) ==
  /\ frameSize > 0
  /\ ~HasBit(f.can_id, RtrBit)
\* mutant: remote frames are decoded like data frames
ReceiveAccepts_RemoteToo(f, frameSize) ==
  SizeEq(frameSize, CANFD_MTU) \/ SizeEq(frameSize, CAN_MTU)
\* whether the frame read goes on to be decoded
ReceiveAccepts(f, frameSize) ==
  /\ SizeEq(frameSize, CANFD_MTU) \/ SizeEq(frameSize, CAN_MTU)
  /\ ~HasBit(f.can_id, RtrBit)

\* mutant: after a remote frame the next frame is read in the same call
ReceiveRead_SkipRemote(tab, fd, env) ==
  LET r1 == SysRead(tab, fd, env.read, env.arriving)
      e1 == Ev("read", fd, r1.ret, CANFD_MTU)
      r2 == SysRead(r1.tab, fd, env.read, env.arriving)
  IN IF r1.ret \in {CAN_MTU, CANFD_MTU} /\ HasBit(r1.frame.can_id, RtrBit)
     THEN [r |-> r2, trace |-> <<e1, Ev("read", fd, r2.ret, CANFD_MTU)>>]
     ELSE [r |-> r1, trace |-> <<e1>>]
\* the read of the call: its result and its system calls
ReceiveRead(tab, fd, env) ==
  LET r == SysRead(tab, fd, env.read, env.arriving)
  IN [r |-> r, trace |-> <<Ev("read", fd, r.ret, CANFD_MTU)>>]

\* mutant: receive reads whatever the handle is
cancomm_receive_NoHandleCheck(c, tab, env) ==
  LET none == [result |-> CANCOMM_FALSE, trace |-> <<>>, tab |-> tab,
               frame |-> ZeroFrame, size |-> 0, out |-> NoOut,
               blocked |-> FALSE, entry |-> RxEntry(ZeroFrame, 0)]
      fd == ToInt32(c.socket)
      rr == ReceiveRead(tab, fd, env)
      r == rr.r
      rd == [none EXCEPT !.trace = rr.trace,
                         !.tab = r.tab, !.frame = r.frame, !.size = r.ret,
                         !.blocked = r.blocked, !.entry = r.entry]
      f == r.frame
  IN IF TRUE
     THEN IF ReceiveAccepts(f, r.ret)
          THEN [rd EXCEPT
                  !.trace = Append(@, Ev("ioctl_stamp", fd,
                                         IF env.stampOk THEN 0 ELSE -1, env.stamp)),
                  !.out = ReceiveDecode(c, f, r.ret, env),
                  !.result = CANCOMM_TRUE]
          ELSE rd
     ELSE none
cancomm_receive(c, tab, env) ==
  LET none == [result |-> CANCOMM_FALSE, trace |-> <<>>, tab |-> tab,
               frame |-> ZeroFrame, size |-> 0, out |-> NoOut,
               blocked |-> FALSE, entry |-> RxEntry(ZeroFrame, 0)]
      fd == ToInt32(c.socket)
      rr == ReceiveRead(tab, fd, env)
      r == rr.r
      rd == [none EXCEPT !.trace = rr.trace,
                         !.tab = r.tab, !.frame = r.frame, !.size = r.ret,
                         !.blocked = r.blocked, !.entry = r.entry]
      f == r.frame
  IN IF c.socket # CANCOMM_INVALID_SOCKET
     THEN IF ReceiveAccepts(f, r.ret)
          THEN [rd EXCEPT
                  !.trace = Append(@, Ev("ioctl_stamp", fd,
                                         IF env.stampOk THEN 0 ELSE -1, env.stamp)),
                  !.out = ReceiveDecode(c, f, r.ret, env),
                  !.result = CANCOMM_TRUE]
          ELSE rd
     ELSE none

\* cancomm_transmit called with the pointer arguments named in nulls being
\* NULL and assertions compiled out: ctx and data are tested, timestamp is
\* not, and is stored through after a full write.  deref: the NULL
\* pointers the call stores through
cancomm_transmit_null(c, tab, a, env, nulls) ==
  LET r == cancomm_transmit(c, tab, a, env)
      none == [result |-> CANCOMM_FALSE, trace |-> <<>>, frame |-> ZeroFrame,
               size |-> 0, timestamp |-> 0, tsSet |-> FALSE, deref |-> {}]
  IN IF "ctx" \in nulls \/ "data" \in nulls
     THEN none
     ELSE [result |-> r.result, trace |-> r.trace, frame |-> r.frame,
           size |-> r.size, timestamp |-> r.timestamp, tsSet |-> r.tsSet,
           deref |-> IF r.tsSet THEN nulls \cap {"timestamp"} ELSE {}]

\* cancomm_receive called with the pointer arguments named in nulls being
\* NULL: every pointer but flags is tested, and flags is stored through
\* once a frame was accepted
cancomm_receive_null(c, tab, env, nulls) ==
  LET r == cancomm_receive(c, tab, env)
      none == [result |-> CANCOMM_FALSE, trace |-> <<>>, tab |-> tab,
               frame |-> ZeroFrame, size |-> 0, out |-> NoOut,
               blocked |-> FALSE, entry |-> RxEntry(ZeroFrame, 0), deref |-> {}]
  IN IF nulls \cap {"ctx", "id", "ext", "len", "data", "timestamp"} # {}
     THEN none
     ELSE [result |-> r.result, trace |-> r.trace, tab |-> r.tab,
           frame |-> r.frame, size |-> r.size, out |-> r.out,
           blocked |-> r.blocked, entry |-> r.entry,
           deref |-> IF r.result = CANCOMM_TRUE THEN nulls \cap {"flags"} ELSE {}]

\* the loopback of the interface: a frame written in full is queued for
\* reading on the socket, as size bytes; a is the transmit that wrote it
Loopback(tab, fd, frame, size, a) ==
  [tab EXCEPT ![fd].rxq =
     Append(@, [frame |-> [frame EXCEPT
                             !.data = [i \in 1..CANFD_MAX_DLEN |->
                                         IF i <= size - CanHeaderSize
                                         THEN frame.data[i] ELSE 0]],
                size |-> size, sent |-> TRUE, src |-> a])]

(***************************************************************************)
(* Device enumeration.  An absent string (NULL) is NullName.  The address  *)
(* family of an interface is a fact of the system.                         *)
(***************************************************************************)
NullName == "NULL"
ARPHRD_CAN == 280
\* one more than the counts a uint8_t holds
ManyIfs == 2^8 + 1
\* the virtual CAN interfaces vcan1 to vcan<n>
ManyCan(n) == [i \in 1..n |-> "vcan" \o ToString(i)]
CanNames == {"can0", "vcan0"} \cup {ManyCan(ManyIfs)[i] : i \in 1..ManyIfs}
HwFamily(name) == IF name \in CanNames THEN ARPHRD_CAN ELSE ARPHRD_CAN + 1
\* ioctl(fd, SIOCGIFHWADDR, &ifr): ifr.ifr_hwaddr.sa_family on success
SysIoctlHwaddr(tab, fd, name, ok) ==
  IF IsOpen(tab, fd) /\ ok THEN [ret |-> 0, family |-> HwFamily(name)]
  ELSE [ret |-> -1, family |-> 0]

\* mutant: the socket is closed only after an interface that is a CAN device
cancomm_devices_is_can_Leak(m, name, sockOk, hwOk) ==
  LET s == SysSocket(m.tab, sockOk)
      m1 == [Log(m, Ev("socket", s.ret, s.ret, 0)) EXCEPT !.tab = s.tab]
      q == SysIoctlHwaddr(m1.tab, s.ret, name, hwOk)
      m2 == Log(m1, Ev("ioctl_hwaddr", s.ret, q.ret, q.family))
      c == SysClose(m2.tab, s.ret)
      m3 == [Log(m2, Ev("close", s.ret, c.ret, 0)) EXCEPT !.tab = c.tab]
  IN IF s.ret # -1
     THEN IF q.ret # -1 /\ q.family = ARPHRD_CAN
          THEN [m3 EXCEPT !.result = CANCOMM_TRUE]
          ELSE [m2 EXCEPT !.result = CANCOMM_FALSE]
     ELSE [m1 EXCEPT !.result = CANCOMM_FALSE]
\* cancomm_devices_is_can on the running record m; sockOk and hwOk are the
\* outcomes of its two system calls; the answer is left in m.result
cancomm_devices_is_can(m, name, sockOk, hwOk) ==
  LET s == SysSocket(m.tab, sockOk)
      m1 == [Log(m, Ev("socket", s.ret, s.ret, 0)) EXCEPT !.tab = s.tab]
      q == SysIoctlHwaddr(m1.tab, s.ret, name, hwOk)
      m2 == Log(m1, Ev("ioctl_hwaddr", s.ret, q.ret, q.family))
      c == SysClose(m2.tab, s.ret)
      m3 == [Log(m2, Ev("close", s.ret, c.ret, 0)) EXCEPT !.tab = c.tab]
  IN IF s.ret # -1
     THEN [m3 EXCEPT !.result = IF q.ret # -1 /\ q.family = ARPHRD_CAN
                                 THEN CANCOMM_TRUE ELSE CANCOMM_FALSE]
     ELSE [m1 EXCEPT !.result = CANCOMM_FALSE]

\* realloc(list, n * IFNAMSIZ) that succeeds: the old entries that fit are
\* kept, the new ones hold no name yet
Realloc(list, n) == [i \in 1..n |-> IF i <= Len(list) THEN list[i] ELSE NullName]

\* the body of the loop of cancomm_devices_buildlist for one interface;
\* m.broke says that the loop was left by break
BuildListEntry(m, name, i, env) ==
  IF name # NullName
  THEN LET p == cancomm_devices_is_can(m, name, env.sockFailAt # i, env.hwFailAt # i)
           cnt == p.ctx.devices_cnt + 1
       IN IF p.result = CANCOMM_TRUE
          THEN IF env.reallocFailAt = i
               THEN [p EXCEPT !.ctx.devices_cnt = 0, !.ctx.devices_list = <<>>,
                              !.broke = TRUE]
               ELSE [p EXCEPT !.ctx.devices_cnt = cnt,
                              !.ctx.devices_list =
                                 [Realloc(@, cnt) EXCEPT ![cnt] = name]]
          ELSE p
  ELSE m

\* the loop over the interfaces lo to hi, in order, computed by halves
RECURSIVE BuildListRange(_, _, _, _, _)
BuildListRange(m, ifs, lo, hi, env) ==
  IF lo > hi \/ m.broke THEN m
  ELSE IF lo = hi THEN BuildListEntry(m, ifs[lo], lo, env)
  ELSE LET mid == (lo + hi) \div 2
           left == BuildListRange(m, ifs, lo, mid, env)
       IN BuildListRange(left, ifs, mid + 1, hi, env)

\* the loop from interface i on
BuildListLoop(m, ifs, i, env) == BuildListRange(m, ifs, i, Len(ifs), env)

\* mutant: the count of the previous enumeration is kept
cancomm_devices_buildlist_NoReset(c, tab, ifs, env) ==
  LET m0 == [ctx |-> c, tab |-> tab, trace |-> <<>>,
             result |-> 0, broke |-> FALSE]
      m1 == BuildListLoop(m0, ifs, 1, env)
  IN IF env.getifOk
     THEN [m1 EXCEPT !.result = m1.ctx.devices_cnt % 256]
     ELSE m0
\* ifs: the names getifaddrs reports, in order; env.getifOk its outcome
cancomm_devices_buildlist(c, tab, ifs, env) ==
  LET m0 == [ctx |-> [c EXCEPT !.devices_cnt = 0], tab |-> tab, trace |-> <<>>,
             result |-> 0, broke |-> FALSE]
      m1 == BuildListLoop(m0, ifs, 1, env)
  IN IF env.getifOk
     THEN [m1 EXCEPT !.result = m1.ctx.devices_cnt % 256]
     ELSE m0

\* cancomm_devices_name
cancomm_devices_name(c, idx) ==
  IF idx < c.devices_cnt THEN c.devices_list[idx + 1] ELSE NullName

(***************************************************************************)
(* State: the context (ctx, meaningful while allocated), the descriptor    *)
(* table, and the last public call: its name, its arguments, its return    *)
(* value, its outputs and its system calls.                                *)
(***************************************************************************)
\* connDev: the device argument of the most recent connect (history)
\* listed: the most recent cancomm_devices_buildlist of the context: the
\* count it returned, the interfaces getifaddrs reported to it and the
\* outcomes of its system calls (history)
VARIABLES ctx, allocated, fdtab, last, connDev, listed

vars == <<ctx, allocated, fdtab, last, connDev, listed>>

NoList == [count |-> 0, ifs |-> <<>>,
           env |-> [getifOk |-> FALSE, sockFailAt |-> 0, hwFailAt |-> 0,
                    reallocFailAt |-> 0]]

Last(op, device, ret, trace) ==
  [op |-> op, device |-> device, ret |-> ret, trace |-> trace, args |-> NoArgs,
   frame |-> ZeroFrame, size |-> 0, timestamp |-> 0, tsSet |-> FALSE,
   idx |-> 0, name |-> NullName, out |-> NoOut,
   blocked |-> FALSE, queued |-> <<>>, entry |-> RxEntry(ZeroFrame, 0),
   nulls |-> {}, deref |-> {}, trapped |-> FALSE]

Init ==
  /\ ctx = NewCtx
  /\ allocated = TRUE
  /\ fdtab = [fd \in Fds |-> ClosedSock]
  /\ last = Last("new", "", 1, <<>>)
  /\ connDev = ""
  /\ listed = NoList

\* cancomm_new, after the previous context was released; malloc may fail
New ==
  /\ ~allocated
  /\ \E ok \in BOOLEAN :
       /\ allocated' = ok
       /\ ctx' = NewCtx
       /\ last' = Last("new", "", IF ok THEN 1 ELSE 0, <<>>)
  /\ listed' = NoList
  /\ UNCHANGED <<fdtab, connDev>>

Free ==
  /\ allocated
  /\ \E r \in {cancomm_free(ctx, fdtab)} :
       /\ fdtab' = r.tab
       /\ last' = Last("free", "", 0, r.trace)
  /\ ctx' = NewCtx
  /\ allocated' = FALSE
  /\ listed' = NoList
  /\ UNCHANGED connDev

Connect(devices, envs) ==
  /\ allocated
  /\ \E device \in devices, env \in envs :
       \E r \in {cancomm_connect(ctx, fdtab, device, env)} :
         /\ ctx' = r.ctx
         /\ fdtab' = r.tab
         /\ last' = Last("connect", device, r.result, r.trace)
         /\ connDev' = device
  /\ UNCHANGED <<allocated, listed>>

Disconnect ==
  /\ allocated
  /\ \E r \in {cancomm_disconnect([ctx |-> ctx, tab |-> fdtab, trace |-> <<>>])} :
       /\ ctx' = r.ctx
       /\ fdtab' = r.tab
       /\ last' = Last("disconnect", "", 0, r.trace)
  /\ UNCHANGED <<allocated, connDev, listed>>

Transmit(argset, envs) ==
  /\ allocated
  /\ \E a \in argset, env \in envs :
       \E r \in {cancomm_transmit(ctx, fdtab, a, env)} :
         last' = [Last("transmit", "", r.result, r.trace) EXCEPT
                    !.args = a, !.frame = r.frame, !.size = r.size,
                    !.timestamp = r.timestamp, !.tsSet = r.tsSet]
  /\ UNCHANGED <<ctx, allocated, fdtab, connDev, listed>>

BuildList(iflists, envs) ==
  /\ allocated
  /\ \E ifs \in iflists, env \in envs :
       \E r \in {cancomm_devices_buildlist(ctx, fdtab, ifs, env)} :
         /\ ctx' = r.ctx
         /\ fdtab' = r.tab
         /\ last' = Last("buildlist", "", r.result, r.trace)
         /\ listed' = [count |-> r.result, ifs |-> ifs, env |-> env]
  /\ UNCHANGED <<allocated, connDev>>

DeviceName(idxs) ==
  /\ allocated
  /\ \E idx \in idxs :
       last' = [Last("name", "", 0, <<>>) EXCEPT
                  !.idx = idx, !.name = cancomm_devices_name(ctx, idx)]
  /\ UNCHANGED <<ctx, allocated, fdtab, connDev, listed>>

\* transmit on an interface that loops its frames back: a frame written in
\* full is queued on the socket, unless maxq frames wait there already
TransmitEcho(argset, envs, maxq) ==
  /\ allocated
  /\ \E a \in argset, env \in envs :
       \E r \in {cancomm_transmit(ctx, fdtab, a, env)} :
         /\ last' = [Last("transmit", "", r.result, r.trace) EXCEPT
                      !.args = a, !.frame = r.frame, !.size = r.size,
                      !.timestamp = r.timestamp, !.tsSet = r.tsSet]
         /\ fdtab' = IF /\ r.trace # <<>>
                        /\ r.trace[1].ret = r.size
                        /\ Len(fdtab[r.trace[1].fd].rxq) < maxq
                     THEN Loopback(fdtab, r.trace[1].fd, r.frame, r.size, a)
                     ELSE fdtab
  /\ UNCHANGED <<ctx, allocated, connDev, listed>>

\* the bus delivers a frame to the context's bound socket; a socket takes
\* CAN FD frames only with CAN_RAW_FD_FRAMES on, and holds at most maxq
Arrive(entries, maxq) ==
  /\ ctx.socket # CANCOMM_INVALID_SOCKET
  /\ IsOpen(fdtab, ToInt32(ctx.socket))
  /\ \E e \in entries :
       LET fd == ToInt32(ctx.socket)
       IN /\ fdtab[fd].bound # 0
          /\ Len(fdtab[fd].rxq) < maxq
          /\ e.size = CANFD_MTU => fdtab[fd].fd_frames
          /\ fdtab' = [fdtab EXCEPT ![fd].rxq = Append(@, e)]
  /\ UNCHANGED <<ctx, allocated, last, connDev, listed>>

\* queued: the socket's receive queue when the call began (history)
Receive(envs) ==
  /\ allocated
  /\ \E env \in envs :
       \E r \in {cancomm_receive(ctx, fdtab, env)} :
         /\ fdtab' = r.tab
         /\ last' = [Last("receive", "", r.result, r.trace) EXCEPT
                      !.frame = r.frame, !.size = r.size, !.out = r.out,
                      !.blocked = r.blocked,
                      !.entry = r.entry,
                      !.queued = IF IsOpen(fdtab, ToInt32(ctx.socket))
                                 THEN fdtab[ToInt32(ctx.socket)].rxq ELSE <<>>]
  /\ UNCHANGED <<ctx, allocated, connDev, listed>>

\* the end of the process at a store through a NULL pointer: the kernel
\* closes its descriptors and its memory is gone
Trap(op, r, nulls) ==
  /\ ctx' = NewCtx
  /\ allocated' = FALSE
  /\ fdtab' = [fd \in Fds |-> ClosedSock]
  /\ listed' = NoList
  /\ last' = [Last(op, "", CANCOMM_FALSE, r.trace) EXCEPT
               !.nulls = nulls, !.deref = r.deref, !.trapped = TRUE]
  /\ UNCHANGED connDev

\* transmit with NULL among its pointer arguments.  A store through NULL
\* is undefined: the process is ended by a signal, or runs on
TransmitNull(argset, envs, nullsets) ==
  /\ allocated
  /\ \E a \in argset, env \in envs, nulls \in nullsets, trap \in BOOLEAN :
       \E r \in {cancomm_transmit_null(ctx, fdtab, a, env, nulls)} :
         IF r.deref # {} /\ trap
         THEN Trap("transmit", r, nulls)
         ELSE /\ ~trap
              /\ last' = [Last("transmit", "", r.result, r.trace) EXCEPT
                           !.args = a, !.frame = r.frame, !.size = r.size,
                           !.timestamp = r.timestamp, !.tsSet = r.tsSet,
                           !.nulls = nulls, !.deref = r.deref]
              /\ UNCHANGED <<ctx, allocated, fdtab, connDev, listed>>

\* receive with NULL among its pointer arguments
ReceiveNull(envs, nullsets) ==
  /\ allocated
  /\ \E env \in envs, nulls \in nullsets, trap \in BOOLEAN :
       \E r \in {cancomm_receive_null(ctx, fdtab, env, nulls)} :
         IF r.deref # {} /\ trap
         THEN Trap("receive", r, nulls)
         ELSE /\ ~trap
              /\ fdtab' = r.tab
              /\ last' = [Last("receive", "", r.result, r.trace) EXCEPT
                           !.frame = r.frame, !.size = r.size, !.out = r.out,
                           !.blocked = r.blocked, !.entry = r.entry,
                           !.nulls = nulls, !.deref = r.deref,
                           !.queued = IF IsOpen(fdtab, ToInt32(ctx.socket))
                                      THEN fdtab[ToInt32(ctx.socket)].rxq ELSE <<>>]
              /\ UNCHANGED <<ctx, allocated, connDev, listed>>

\* free, connect, disconnect, cancomm_devices_buildlist or
\* cancomm_devices_name with a NULL context, or connect with a NULL device:
\* the test that opens each of them fails and the call returns
NullCall(calls) ==
  /\ \E call \in calls :
       last' = [Last(call[1], "", 0, <<>>) EXCEPT !.nulls = call[2]]
  /\ UNCHANGED <<ctx, allocated, fdtab, connDev, listed>>

\* cancomm_sanitize_frame_len applied to a length
Sanitize(lens) ==
  /\ \E len \in lens :
       last' = [Last("sanitize", "", cancomm_sanitize_frame_len(len), <<>>) EXCEPT
                  !.args.len = len]
  /\ UNCHANGED <<ctx, allocated, fdtab, connDev, listed>>

\* cancomm_sanitize_frame_len applied to its own result
SanitizeAgain ==
  /\ last.op = "sanitize"
  /\ last' = [Last("sanitize2", "", cancomm_sanitize_frame_len(last.ret), <<>>) EXCEPT
                !.args.len = last.ret]
  /\ UNCHANGED <<ctx, allocated, fdtab, connDev, listed>>

(***************************************************************************)
(* Inputs.                                                                 *)
(***************************************************************************)
\* the caller's data array: len bytes counting up from seed
DataOf(seed, len) == [i \in 1..len |-> (seed + i) % 256]
TxArg(id, ext, len, seed, flags) ==
  [id |-> id, ext |-> ext, len |-> len, data |-> DataOf(seed, len), flags |-> flags]
\* outcomes of the system calls of one transmit; the clock is read only
\* after a full write
TxEnv(write, timeOk, now) == [write |-> write, timeOk |-> timeOk, now |-> now]
TxEnvs == {TxEnv("error", TRUE, 0), TxEnv("short", TRUE, 0), TxEnv("full", FALSE, 0)}
          \cup {TxEnv("full", TRUE, now) : now \in Times}
\* 0x123 and 0x123A5
TxIds == {<<0, 291>>, <<1, 9125>>}
TxLens == {0, 8, 9, 13, 64, 65, 255}
TxFlags == {0, CANCOMM_FLAG_CANFD_MSG, CANCOMM_FLAG_CANFD_MSG + CANCOMM_FLAG_CANERR_MSG}
TxArgs == {TxArg(x[1], x[2], x[3], 84, x[4]) :
             x \in TxIds \X {CANCOMM_FALSE, CANCOMM_TRUE} \X TxLens \X TxFlags}
TxArgsFew == {TxArg(<<0, 291>>, CANCOMM_FALSE, len, 84, CANCOMM_FLAG_CANFD_MSG) :
                len \in {4, 12}}
TxEnvsFew == {TxEnv("full", TRUE, 0), TxEnv("error", TRUE, 0)}

\* connect outcomes that reach every state of the context
ConnectEnvsFew ==
  {ConnectEnv(TRUE, now, TRUE, TRUE, x[2], x[3], TRUE, TRUE, TRUE, b) :
     now \in Times, x \in MtuOutcomes, b \in BOOLEAN}

\* what getifaddrs reports, and the one place (0: nowhere) where each kind
\* of failure strikes
BlEnv(getifOk, s, h, r) ==
  [getifOk |-> getifOk, sockFailAt |-> s, hwFailAt |-> h, reallocFailAt |-> r]
IfLists == {<<>>, <<"can0">>, <<"eth0", "can0">>, <<"can0", "vcan0">>,
            <<"vcan0", NullName, "can0">>}
BlEnvs == {BlEnv(FALSE, 0, 0, 0)}
          \cup {BlEnv(TRUE, x[1], x[2], x[3]) : x \in (0..2) \X (0..2) \X (0..2)}
IfListsFew == {<<"can0">>, <<"eth0", "can0", "vcan0">>}
BlEnvsFew == {BlEnv(TRUE, 0, 0, 0), BlEnv(FALSE, 0, 0, 0), BlEnv(TRUE, 0, 0, 2)}
Idxs == 0..3
\* systems with one CAN interface and with more than a uint8_t counts
ManyLists == {<<"can0">>, ManyCan(ManyIfs)}
BlEnvsMany == {BlEnv(TRUE, 0, 0, 0), BlEnv(FALSE, 0, 0, 0)}
\* the first indices and the last one a uint8_t holds
IdxsWide == {0, 1, 2, 2^8 - 1}
\* what getifaddrs reports and how the probes and allocations end, for the
\* runs about the device list
IfListsDev == {<<>>, <<"eth0", "can0">>, <<"vcan0", NullName, "can0">>}
BlEnvsDev == {BlEnv(FALSE, 0, 0, 0), BlEnv(TRUE, 0, 0, 0), BlEnv(TRUE, 1, 0, 0),
              BlEnv(TRUE, 0, 1, 0), BlEnv(TRUE, 0, 0, 1), BlEnv(TRUE, 0, 0, 3)}
\* a connect that succeeds
ConnectEnvsOk == {ConnectEnv(TRUE, 0, TRUE, TRUE, CAN_MTU, TRUE, TRUE, TRUE, TRUE, TRUE)}

\* every value of the uint8_t argument of cancomm_sanitize_frame_len
SanitizeLens == 0..255

\* a frame as the kernel hands it to read(): len data bytes counting up from
\* seed, the rest of the buffer zero
RxFrame(can_id, len, seed) ==
  [can_id |-> can_id, len |-> len, flags |-> 0,
   data |-> [i \in 1..CANFD_MAX_DLEN |-> IF i <= len THEN (seed + i) % 256 ELSE 0]]
\* raw identifiers: 0x123, 0x123A5 extended, both as remote frames, the
\* error class 0x4 alone, with the remote marker and with the extended marker
RxIds == {<<0, 291>>, <<EffBit + 1, 9125>>, <<RtrBit, 291>>, <<RtrBit + EffBit + 1, 9125>>,
          <<ErrBit, 4>>, <<ErrBit + RtrBit, 4>>, <<ErrBit + EffBit, 4>>}
RxEntries == {RxEntry(RxFrame(id, x[2], 32), x[1]) :
                id \in RxIds,
                x \in {<<CAN_MTU, 0>>, <<CAN_MTU, 8>>, <<CANFD_MTU, 8>>, <<CANFD_MTU, 12>>}}
\* the outcomes of the system calls of one receive; the stamp is asked for
\* only after a whole frame was read
RxEnv(read, stampOk, stamp) ==
  [read |-> read, stampOk |-> stampOk, stamp |-> stamp, junk |-> 0,
   arriving |-> RxEntry(RxFrame(<<0, 291>>, 2, 32), CAN_MTU)]
RxEnvs == {RxEnv("error", TRUE, 0), RxEnv("short", TRUE, 0), RxEnv("frame", FALSE, 0)}
          \cup {RxEnv("frame", TRUE, t) : t \in Times}
RxEnvsFew == {RxEnv("frame", TRUE, 0), RxEnv("error", TRUE, 0)}
\* frames whose length byte is any value of its eight bits, legal for the
\* framing or not
RxEntriesRaw == {RxEntry(RxFrame(id, x[2], 32), x[1]) :
                   id \in {<<0, 291>>, <<EffBit + 1, 9125>>, <<ErrBit, 4>>},
                   x \in {<<CAN_MTU, 8>>, <<CAN_MTU, 9>>, <<CAN_MTU, 12>>, <<CAN_MTU, 255>>,
                          <<CANFD_MTU, 64>>, <<CANFD_MTU, 65>>, <<CANFD_MTU, 255>>}}
RxEnvsRaw == {RxEnv("error", TRUE, 0)}
             \cup {[RxEnv("frame", TRUE, 0) EXCEPT !.junk = j] : j \in {0, 165}}
\* the outcomes of both clocks, a clock that cannot be read included
TxEnvsTime == {TxEnv("full", ok, now) : ok \in BOOLEAN, now \in Times}
              \cup {TxEnv("error", TRUE, 0)}
RxEnvsTime == {RxEnv("frame", ok, t) : ok \in BOOLEAN, t \in Times}
\* connects for receiving: CAN classic, CAN FD, and one whose F_SETFL fails
ConnectEnvsRx ==
  {ConnectEnv(TRUE, 0, TRUE, TRUE, mtu, TRUE, TRUE, TRUE, TRUE, TRUE) :
     mtu \in {CAN_MTU, CANFD_MTU}}
  \cup {ConnectEnv(TRUE, 0, TRUE, TRUE, CAN_MTU, TRUE, TRUE, FALSE, TRUE, TRUE)}
\* frames of the bus for the loopback runs: a data frame and a remote frame
BusEntries == {RxEntry(RxFrame(<<0, 291>>, 2, 32), CAN_MTU),
               RxEntry(RxFrame(<<RtrBit, 291>>, 0, 32), CAN_MTU)}
\* transmits for the loopback runs: 0x123, 0x123A5 and 0x1FFFFFFF in both
\* widths and framings, and 0x40000123, which is not below 2^29
TxArgsBus == {TxArg(<<0, 291>>, CANCOMM_FALSE, 8, 84, 0),
              TxArg(<<1, 9125>>, CANCOMM_TRUE, 0, 84, 0),
              TxArg(<<1, 9125>>, CANCOMM_FALSE, 3, 84, CANCOMM_FLAG_CANFD_MSG),
              TxArg(<<0, 291>>, CANCOMM_TRUE, 13, 84, CANCOMM_FLAG_CANFD_MSG),
              TxArg(<<8191, 65535>>, CANCOMM_TRUE, 64, 84, CANCOMM_FLAG_CANFD_MSG),
              TxArg(<<RtrBit, 291>>, CANCOMM_FALSE, 1, 84, 0)}

(***************************************************************************)
(* Specifications.  Spec draws every outcome of connect; SpecTx draws the  *)
(* arguments and outcomes of transmit.                                     *)
(***************************************************************************)
Next ==
  \/ New
  \/ Free
  \/ Connect(ConnectDevices, ConnectEnvs)
  \/ Disconnect
  \/ Transmit(TxArgsFew, TxEnvsFew)
  \/ BuildList(IfListsFew, BlEnvsFew)
  \/ DeviceName({0, 1})

Spec == Init /\ [][Next]_vars

NextTx ==
  \/ New
  \/ Free
  \/ Connect({"can0"}, ConnectEnvsFew)
  \/ Disconnect
  \/ Transmit(TxArgs, TxEnvs)

SpecTx == Init /\ [][NextTx]_vars

\* the length normalisation alone, over every argument
NextLen ==
  \/ Sanitize(SanitizeLens)
  \/ SanitizeAgain

SpecLen == Init /\ [][NextLen]_vars

\* receive, over the frames and outcomes of read(); one frame waits at a time
NextRx ==
  \/ New
  \/ Free
  \/ Connect({"can0"}, ConnectEnvsRx)
  \/ Disconnect
  \/ Arrive(RxEntries, 1)
  \/ Receive(RxEnvs)

SpecRx == Init /\ [][NextRx]_vars

\* receive, over every length byte a frame can carry
NextRxRaw ==
  \/ New
  \/ Free
  \/ Connect({"can0"}, ConnectEnvsRx)
  \/ Disconnect
  \/ Arrive(RxEntriesRaw, 1)
  \/ Receive(RxEnvsRaw)

SpecRxRaw == Init /\ [][NextRxRaw]_vars

\* the timestamps of transmit and receive, over the readings of the clocks
NextTime ==
  \/ New
  \/ Free
  \/ Connect({"can0"}, ConnectEnvsFew)
  \/ Disconnect
  \/ TransmitEcho(TxArgsFew, TxEnvsTime, 1)
  \/ Arrive(BusEntries, 1)
  \/ Receive(RxEnvsTime)

SpecTime == Init /\ [][NextTime]_vars

\* the device list, over what getifaddrs reports and how the probes end
NextDev ==
  \/ New
  \/ Free
  \/ Connect({"can0"}, ConnectEnvsOk)
  \/ Disconnect
  \/ BuildList(IfListsDev, BlEnvsDev)
  \/ DeviceName(Idxs)

SpecDev == Init /\ [][NextDev]_vars

\* the device list on a system with very many CAN interfaces
NextMany ==
  \/ New
  \/ Free
  \/ Connect({"can0"}, ConnectEnvsOk)
  \/ Disconnect
  \/ BuildList(ManyLists, BlEnvsMany)
  \/ DeviceName(IdxsWide)

SpecMany == Init /\ [][NextMany]_vars

\* every operation on one context, for what each leaves alone
NextFrame ==
  \/ New
  \/ Free
  \/ Connect({"can0"}, ConnectEnvsFew)
  \/ Disconnect
  \/ TransmitEcho(TxArgsFew, TxEnvsFew, 1)
  \/ Receive(RxEnvsFew)
  \/ BuildList(IfListsFew, BlEnvsFew)
  \/ DeviceName({0, 1})

SpecFrame == Init /\ [][NextFrame]_vars

\* the pointer arguments that are NULL in a call
TxNulls == {{"ctx"}, {"data"}, {"timestamp"}, {"data", "timestamp"}}
RxNulls == {{"ctx"}, {"id"}, {"ext"}, {"len"}, {"data"}, {"flags"}, {"timestamp"},
            {"id", "flags"}}
NullCalls == {<<"free", {"ctx"}>>, <<"connect", {"ctx"}>>, <<"connect", {"device"}>>,
              <<"disconnect", {"ctx"}>>, <<"buildlist", {"ctx"}>>, <<"name", {"ctx"}>>}

\* calls with NULL arguments, assertions compiled out
NextNull ==
  \/ New
  \/ Free
  \/ Connect({"can0"}, ConnectEnvsRx)
  \/ Disconnect
  \/ Arrive(BusEntries, 1)
  \/ TransmitNull(TxArgsFew, TxEnvsFew, TxNulls)
  \/ ReceiveNull(RxEnvsFew, RxNulls)
  \/ NullCall(NullCalls)

SpecNull == Init /\ [][NextNull]_vars

\* transmit and receive over a looped-back interface with a queue
NextBus ==
  \/ New
  \/ Free
  \/ Connect({"can0"}, ConnectEnvsRx)
  \/ Disconnect
  \/ TransmitEcho(TxArgsBus, TxEnvsFew, MaxQueue)
  \/ Arrive(BusEntries, MaxQueue)
  \/ Receive(RxEnvsFew)

SpecBus == Init /\ [][NextBus]_vars

(***************************************************************************)
(* Properties.  TraceIdx(call) are the positions of the system calls named *)
(* call among those of the last public call.                               *)
(***************************************************************************)
TraceIdx(call) == {i \in 1..Len(last.trace) : last.trace[i].call = call}
Connected == ctx.socket # CANCOMM_INVALID_SOCKET
Handle == ToInt32(ctx.socket)
Failed(call) == \E i \in TraceIdx(call) : last.trace[i].ret < 0

\* C1: at every return of connect at most one socket is open, exactly one
\* (the context's) after a connect that returned success, and every close
\* of a socket other than the one this call opened comes before the open.
C1_ConnectOwnsOneSocket ==
  last.op = "connect" =>
    /\ Cardinality(OpenFds(fdtab)) <= 1
    /\ last.ret = CANCOMM_TRUE => OpenFds(fdtab) = {Handle}
    /\ \A i \in TraceIdx("socket"), j \in TraceIdx("close") :
         last.trace[j].fd # last.trace[i].fd => j < i
\* a connect on a connected context that returned success
C1_Witness ==
  /\ last.op = "connect" /\ last.ret = CANCOMM_TRUE
  /\ last.trace[1].call = "close" /\ last.trace[1].ret = 0

\* C2: a connect in which socket creation, the non-blocking configuration,
\* the interface-index lookup or bind failed leaves every socket it opened
\* closed and the handle invalid, and returns failure.
C2_FailedConnectReleases ==
  (/\ last.op = "connect"
   /\ Failed("socket") \/ Failed("fcntl_setfl") \/ Failed("ioctl_index") \/ Failed("bind"))
  => /\ \A i \in TraceIdx("socket") : ~IsOpen(fdtab, last.trace[i].fd)
     /\ ctx.socket = CANCOMM_INVALID_SOCKET
     /\ last.ret = CANCOMM_FALSE
\* a connect whose socket creation failed
C2_Witness == last.op = "connect" /\ Failed("socket")

\* C3: whenever a context holds a handle other than the invalid one, the
\* handle names an open socket that is non-blocking and bound to the
\* interface given to the last connect.
C3_HandleLiveBoundNonBlocking ==
  (allocated /\ Connected) =>
    /\ IsOpen(fdtab, Handle)
    /\ "O_NONBLOCK" \in fdtab[Handle].flags
    /\ fdtab[Handle].bound = IfIndex(connDev)
\* connected to vcan0 by a reconnect, and a later call has returned
C3_Witness ==
  /\ allocated /\ Connected /\ connDev = "vcan0"
  /\ last.op = "buildlist" /\ last.ret > 0

\* C4: connect returns success exactly when the handle is valid on return.
C4_SuccessIffConnected ==
  last.op = "connect" => (last.ret = CANCOMM_TRUE <=> Connected)
\* a failed reconnect of a connected context
C4_Witness ==
  /\ last.op = "connect" /\ last.ret = CANCOMM_FALSE
  /\ last.trace[1].call = "close" /\ last.trace[1].ret = 0
  /\ Failed("bind")

\* C5: after a successful connect the extended-framing flag is true exactly
\* when the MTU query succeeded with CANFD_MTU and the option was accepted.
C5_FdEnabledIff ==
  (last.op = "connect" /\ last.ret = CANCOMM_TRUE) =>
    (ctx.fd_enabled = CANCOMM_TRUE <=>
       /\ \E i \in TraceIdx("ioctl_mtu") :
            last.trace[i].ret >= 0 /\ last.trace[i].val = CANFD_MTU
       /\ \E j \in TraceIdx("setsockopt_fd") : last.trace[j].ret = 0)
\* a successful connect whose option was rejected
C5_Witness ==
  /\ last.op = "connect" /\ last.ret = CANCOMM_TRUE
  /\ Failed("setsockopt_fd") /\ ctx.fd_enabled = CANCOMM_FALSE

\* C6: a connect in which every system call other than the MTU query and
\* the extended-frame option succeeded returns success.
C6_ProbeFailureNotFatal ==
  (/\ last.op = "connect"
   /\ \A i \in 1..Len(last.trace) :
        last.trace[i].call \notin {"ioctl_mtu", "setsockopt_fd"} => last.trace[i].ret >= 0)
  => last.ret = CANCOMM_TRUE
\* a successful connect whose MTU query failed
C6_Witness ==
  last.op = "connect" /\ last.ret = CANCOMM_TRUE /\ Failed("ioctl_mtu")

\* C7: a disconnect of a context that is not connected makes no system call
\* and changes nothing; of a connected one it closes the socket once and
\* resets the handle; after either the context is not connected, and the
\* device list and the reference instant are as before.
C7_DisconnectIdempotent ==
  [][last'.op = "disconnect" =>
       /\ IF ctx.socket = CANCOMM_INVALID_SOCKET
          THEN last'.trace = <<>> /\ ctx' = ctx /\ fdtab' = fdtab
          ELSE /\ last'.trace = <<Ev("close", ToInt32(ctx.socket), 0, 0)>>
               /\ fdtab' = [fdtab EXCEPT ![ToInt32(ctx.socket)] = ClosedSock]
       /\ ctx' = [ctx EXCEPT !.socket = CANCOMM_INVALID_SOCKET]]_vars
\* a connected context with a device list and a reference instant was
\* disconnected
C7_Witness ==
  /\ last.op = "disconnect" /\ Len(last.trace) = 1
  /\ ctx.devices_cnt = 2 /\ ctx.connectTime > 0

\* C8: free leaves no socket open, and every close comes before the release
\* of the context's memory.
C8_FreeClosesSocket ==
  last.op = "free" =>
    /\ OpenFds(fdtab) = {}
    /\ \A i \in TraceIdx("close"), j \in TraceIdx("free_ctx") : i < j
\* a connected context was freed
C8_Witness ==
  last.op = "free" /\ \E i \in TraceIdx("close") : last.trace[i].ret = 0

\* the maximum length the claim names: 64 when the context negotiated
\* extended framing and the caller set the CAN FD flag, 8 otherwise
FdRequested ==
  ctx.fd_enabled = CANCOMM_TRUE /\ FlagSet(last.args.flags, CANCOMM_FLAG_CANFD_MSG)
ActiveMax == IF FdRequested THEN 64 ELSE 8

\* C9: a transmit whose length exceeds the active maximum returns failure
\* and makes no write.
C9_OversizeRejected ==
  (last.op = "transmit" /\ last.args.len > ActiveMax) =>
    last.ret = CANCOMM_FALSE /\ TraceIdx("write") = {}
\* 13 bytes with the CAN FD flag on a connected context that negotiated
\* classic framing
C9_Witness ==
  /\ last.op = "transmit" /\ Connected /\ ctx.fd_enabled = CANCOMM_FALSE
  /\ last.args.len = 13 /\ FlagSet(last.args.flags, CANCOMM_FLAG_CANFD_MSG)
  /\ last.ret = CANCOMM_FALSE

\* C10: every write of transmit hands over CANFD_MTU bytes with the bit
\* rate switch set when the context negotiated extended framing and the
\* caller set the CAN FD flag, and CAN_MTU bytes without the bit rate
\* switch in every other case.
C10_WireFrameKind ==
  last.op = "transmit" =>
    \A i \in TraceIdx("write") :
      IF FdRequested
      THEN last.trace[i].val = CANFD_MTU /\ FlagSet(last.frame.flags, CANFD_BRS)
      ELSE last.trace[i].val = CAN_MTU /\ ~FlagSet(last.frame.flags, CANFD_BRS)
\* a frame written with the CAN FD flag on a context that negotiated
\* classic framing
C10_Witness ==
  /\ last.op = "transmit" /\ last.ret = CANCOMM_TRUE
  /\ ctx.fd_enabled = CANCOMM_FALSE
  /\ FlagSet(last.args.flags, CANCOMM_FLAG_CANFD_MSG)

\* C11: a transmit that passes its checks makes exactly one write, no
\* transmit makes more than one, and transmit returns success exactly when
\* that write returned the size of the frame it was handed.
C11_SingleWrite ==
  last.op = "transmit" =>
    /\ Cardinality(TraceIdx("write")) <= 1
    /\ (Connected /\ last.args.len <= ActiveMax) => Cardinality(TraceIdx("write")) = 1
    /\ last.ret = CANCOMM_TRUE <=>
         \E i \in TraceIdx("write") : last.trace[i].ret = last.trace[i].val
\* a write that took a part of the frame
C11_Witness ==
  /\ last.op = "transmit" /\ last.ret = CANCOMM_FALSE
  /\ \E i \in TraceIdx("write") :
       last.trace[i].ret > 0 /\ last.trace[i].ret < last.trace[i].val

\* the lengths a CAN FD frame can have, and the smallest of them that is at
\* least n
LegalLens == (0..8) \cup {12, 16, 20, 24, 32, 48, 64}
LegalCeil(n) == CHOOSE x \in LegalLens :
                  x >= n /\ \A y \in LegalLens : y >= n => x <= y

\* C12: for every 8-bit length L the normalised length is the smallest
\* legal length that is at least min(L, 64); up to 64 it is never below L,
\* a legal length is left as it is, and normalising a normalised length
\* changes nothing.
C12_Normalize ==
  last.op \in {"sanitize", "sanitize2"} =>
    LET L == last.args.len
    IN /\ last.ret = LegalCeil(IF L > 64 THEN 64 ELSE L)
       /\ L <= 64 => last.ret >= L
       /\ L \in LegalLens => last.ret = L
       /\ last.op = "sanitize2" => last.ret = L
\* 48, the normalised length of 33 to 47, normalised again
C12_Witness ==
  last.op = "sanitize2" /\ last.args.len = 48 /\ last.ret = 48

\* C13: after a successful transmit the frame on the wire carries the
\* normalised length, its first bytes are the caller's, in order, up to the
\* requested length, and the bytes from there to the stored length are zero.
C13_StoredFrame ==
  (last.op = "transmit" /\ last.ret = CANCOMM_TRUE) =>
    LET w == Wire(last.frame, last.size)
        n == last.args.len
    IN /\ w.len = LegalCeil(n)
       /\ w.len <= Len(w.data)
       /\ \A i \in 1..n : w.data[i] = last.args.data[i]
       /\ \A i \in (n + 1)..w.len : w.data[i] = 0
\* 13 bytes sent as a CAN FD frame of 16
C13_Witness ==
  /\ last.op = "transmit" /\ last.ret = CANCOMM_TRUE
  /\ last.args.len = 13 /\ last.frame.len = 16
  /\ last.frame.data[13] # 0 /\ last.frame.data[14] = 0

\* the read of the last receive returned a whole frame
ReadWhole ==
  \E i \in TraceIdx("read") : last.trace[i].ret \in {CAN_MTU, CANFD_MTU}

\* C14: a receive on a connected context whose socket has no frame queued
\* returns "not available" from its one read, without waiting for a frame.
C14_EmptyQueueNoWait ==
  (last.op = "receive" /\ Connected /\ last.queued = <<>>) =>
    /\ last.ret = CANCOMM_FALSE
    /\ ~last.blocked
    /\ Cardinality(TraceIdx("read")) = 1
    /\ \A i \in TraceIdx("read") : last.trace[i].ret = -1
\* a receive on a connected context with nothing queued
C14_Witness ==
  /\ last.op = "receive" /\ Connected /\ last.queued = <<>>
  /\ TraceIdx("read") # {} /\ last.ret = CANCOMM_FALSE

\* C15: receive returns a frame only after a read of CAN_MTU or CANFD_MTU
\* bytes; after any other outcome of the read, an error and a partial read
\* included, it returns "not available" and writes no output.
C15_WholeFramesOnly ==
  last.op = "receive" =>
    /\ last.ret = CANCOMM_TRUE => ReadWhole
    /\ ~ReadWhole => last.ret = CANCOMM_FALSE /\ last.out.written = {}
\* a read that returned a part of a queued frame
C15_Witness ==
  /\ last.op = "receive" /\ last.queued # <<>> /\ last.ret = CANCOMM_FALSE
  /\ \E i \in TraceIdx("read") :
       last.trace[i].ret > 0 /\ last.trace[i].ret < last.queued[1].size

\* the outputs of an error notification
ErrorSurfaced ==
  /\ last.ret = CANCOMM_TRUE
  /\ {"flags", "id", "ext", "len"} \subseteq last.out.written
  /\ FlagSet(last.out.flags, CANCOMM_FLAG_CANERR_MSG)
  /\ last.out.id = U32Zero
  /\ last.out.ext = CANCOMM_FALSE
  /\ last.out.len = 0

\* C16 as stated: every frame read whole with the error marker is surfaced
\* with the error flag, identifier 0, extended false and length 0, whatever
\* the other bits of its raw identifier.
C16_Original ==
  (last.op = "receive" /\ ReadWhole /\ HasBit(last.frame.can_id, ErrBit)) =>
    ErrorSurfaced
\* C16: every frame read whole with the error marker and without the
\* remote-request marker is surfaced with the error flag, identifier 0,
\* extended false and length 0, whatever the other bits of its raw
\* identifier; with the remote-request marker it is discarded.
C16_ErrorSurfaced ==
  (last.op = "receive" /\ ReadWhole /\ HasBit(last.frame.can_id, ErrBit)) =>
    IF HasBit(last.frame.can_id, RtrBit)
    THEN last.ret = CANCOMM_FALSE /\ last.out.written = {}
    ELSE ErrorSurfaced
\* an error frame that also carries the extended marker, surfaced
C16_Witness ==
  /\ last.op = "receive" /\ ReadWhole /\ last.ret = CANCOMM_TRUE
  /\ HasBit(last.frame.can_id, ErrBit) /\ HasBit(last.frame.can_id, EffBit)
  /\ last.frame.len > 0

\* C17: a frame read whole with the remote-request marker is not surfaced:
\* receive returns "not available" and writes none of its outputs.
C17_RemoteDiscarded ==
  (last.op = "receive" /\ ReadWhole /\ HasBit(last.frame.can_id, RtrBit)) =>
    last.ret = CANCOMM_FALSE /\ last.out.written = {}
\* a remote frame with an extended identifier was read
C17_Witness ==
  /\ last.op = "receive" /\ ReadWhole
  /\ HasBit(last.frame.can_id, RtrBit) /\ HasBit(last.frame.can_id, EffBit)
  /\ ~HasBit(last.frame.can_id, ErrBit)

\* C18: for a frame read whole with neither the remote-request nor the
\* error marker, receive succeeds; the identifier is the raw one with the
\* extended marker cleared, extended tells whether that marker was set, the
\* CAN FD flag is set exactly when the read returned CANFD_MTU, the error
\* flag is clear, and the length and that many payload bytes are as read.
C18_DataFrameDecoded ==
  (/\ last.op = "receive" /\ ReadWhole
   /\ ~HasBit(last.frame.can_id, RtrBit)
   /\ ~HasBit(last.frame.can_id, ErrBit)) =>
    LET raw == last.entry.frame
    IN /\ last.ret = CANCOMM_TRUE
       /\ {"id", "ext", "len", "data", "flags"} \subseteq last.out.written
       /\ last.out.id = <<raw.can_id[1] % EffBit, raw.can_id[2]>>
       /\ last.out.ext = (IF raw.can_id[1] >= EffBit THEN CANCOMM_TRUE ELSE CANCOMM_FALSE)
       /\ FlagSet(last.out.flags, CANCOMM_FLAG_CANFD_MSG) <=> (last.size = CANFD_MTU)
       /\ ~FlagSet(last.out.flags, CANCOMM_FLAG_CANERR_MSG)
       /\ last.out.len = raw.len
       /\ Len(last.out.data) = raw.len
       /\ \A i \in 1..raw.len : last.out.data[i] = raw.data[i]
\* an extended CAN FD frame of 12 bytes
C18_Witness ==
  /\ last.op = "receive" /\ last.ret = CANCOMM_TRUE
  /\ last.size = CANFD_MTU /\ last.out.len = 12
  /\ last.out.ext = CANCOMM_TRUE /\ last.out.id = <<1, 9125>>
  /\ last.out.data[12] = 44

\* C19: a frame that transmit wrote with an identifier below 2^29 and that
\* the loopback queued is surfaced by the receive that reads it whole, with
\* the identifier and the extended flag of the transmit, its payload bytes
\* in order, and the normalised transmit length as length.
C19_RoundTrip ==
  (/\ last.op = "receive" /\ ReadWhole /\ last.entry.sent
   /\ last.entry.src.id[1] < ErrBit) =>
    LET a == last.entry.src
    IN /\ last.ret = CANCOMM_TRUE
       /\ {"id", "ext", "len", "data"} \subseteq last.out.written
       /\ last.out.id = a.id
       /\ last.out.ext = a.ext
       /\ last.out.len = LegalCeil(a.len)
       /\ \A i \in 1..a.len : last.out.data[i] = a.data[i]
\* 13 bytes sent with the extended identifier 0x123 come back as 16
C19_Witness ==
  /\ last.op = "receive" /\ last.ret = CANCOMM_TRUE /\ last.entry.sent
  /\ last.entry.src.len = 13 /\ last.out.len = 16
  /\ last.out.ext = CANCOMM_TRUE /\ last.out.id = <<0, 291>>
  /\ last.out.data[13] = last.entry.src.data[13]

\* the receive queue of the context's socket
RxQueue == IF IsOpen(fdtab, Handle) THEN fdtab[Handle].rxq ELSE <<>>
ReadsOf(l) == {i \in 1..Len(l.trace) : l.trace[i].call = "read"}

\* C20: a receive makes at most one read; it leaves the socket's queue as it
\* was or takes its first frame off, and nothing else; a frame it surfaces
\* is the one that was first in the queue.
C20_OneFramePerCall ==
  [][(last' # last /\ last'.op = "receive") =>
       /\ Cardinality(ReadsOf(last')) <= 1
       /\ last'.queued = RxQueue
       /\ RxQueue' = RxQueue \/ (RxQueue # <<>> /\ RxQueue' = Tail(RxQueue))
       /\ last'.ret = CANCOMM_TRUE =>
            /\ RxQueue # <<>>
            /\ RxQueue' = Tail(RxQueue)
            /\ last'.entry = Head(RxQueue)
            /\ last'.frame = Head(RxQueue).frame]_vars
\* of two different frames queued the first was surfaced and the second is
\* still queued
C20_Witness ==
  /\ last.op = "receive" /\ last.ret = CANCOMM_TRUE
  /\ Len(last.queued) = 2 /\ last.queued[1] # last.queued[2]
  /\ last.entry = last.queued[1]
  /\ RxQueue = <<last.queued[2]>>

\* C21: a frame surfaced by receive has a length of at most 8 when its CAN
\* FD flag is clear and of at most 64 when it is set, whatever length byte
\* the frame read carried.
C21_LengthWithinMode ==
  (last.op = "receive" /\ last.ret = CANCOMM_TRUE) =>
    IF FlagSet(last.out.flags, CANCOMM_FLAG_CANFD_MSG)
    THEN last.out.len <= CANFD_MAX_DLEN
    ELSE last.out.len <= CAN_MAX_DLEN

\* the readings of the clock that the last call asked for
Clock(call) == {last.trace[i].val : i \in TraceIdx(call)}

\* C22 as stated: the timestamp of a successful transmit is the current
\* time less the context's reference instant, and the timestamp of a
\* received frame is the kernel's capture time less that instant.
C22_Original ==
  /\ (last.op = "transmit" /\ last.ret = CANCOMM_TRUE) =>
       /\ last.tsSet
       /\ \A now \in Clock("gettimeofday") :
            last.timestamp = TimeSub(now, ctx.connectTime)
  /\ (last.op = "receive" /\ last.ret = CANCOMM_TRUE) =>
       /\ "timestamp" \in last.out.written
       /\ \A t \in Clock("ioctl_stamp") :
            last.out.timestamp = TimeSub(t, ctx.connectTime)
\* C22: a successful connect stores the reading of the clock as reference
\* instant; a successful transmit reports the current time less that
\* instant, and a receive that surfaces a frame the kernel's capture time
\* less that instant, both modulo the width of the clock word, when the
\* clock could be read, and 0 when it could not.
C22_Timestamps ==
  /\ (last.op = "connect" /\ last.ret = CANCOMM_TRUE) =>
       Clock("gettimeofday") = {ctx.connectTime}
  /\ (last.op = "transmit" /\ last.ret = CANCOMM_TRUE) =>
       /\ last.tsSet
       /\ \A i \in TraceIdx("gettimeofday") :
            last.timestamp = IF last.trace[i].ret = 0
                             THEN TimeSub(last.trace[i].val, ctx.connectTime) ELSE 0
  /\ (last.op = "receive" /\ last.ret = CANCOMM_TRUE) =>
       /\ "timestamp" \in last.out.written
       /\ \A i \in TraceIdx("ioctl_stamp") :
            last.out.timestamp = IF last.trace[i].ret = 0
                                 THEN TimeSub(last.trace[i].val, ctx.connectTime) ELSE 0
\* a frame captured before the reference instant on the clock word: the
\* difference wraps around
C22_Witness ==
  /\ last.op = "receive" /\ last.ret = CANCOMM_TRUE
  /\ ctx.connectTime = 1
  /\ \E i \in TraceIdx("ioctl_stamp") : last.trace[i].ret = 0 /\ last.trace[i].val = 0
  /\ last.out.timestamp = 2^TimeBits - 1

\* C23: with c the count that the most recent cancomm_devices_buildlist of
\* the context returned (0 before the first), cancomm_devices_name returns
\* a name for every index below c and no name for every index from c on.
C23_NameIffBelowCount ==
  last.op = "name" =>
    IF last.idx < listed.count THEN last.name # NullName ELSE last.name = NullName

\* whether the Prober takes the i-th interface of the last enumeration for
\* a CAN device
Capable(i) ==
  /\ listed.ifs[i] # NullName
  /\ cancomm_devices_is_can([ctx |-> ctx, tab |-> fdtab, trace |-> <<>>,
                             result |-> 0, broke |-> FALSE],
                            listed.ifs[i], listed.env.sockFailAt # i,
                            listed.env.hwFailAt # i).result = CANCOMM_TRUE
\* the names of those interfaces, in the order of the report; none when
\* getifaddrs failed
CapableNames ==
  IF listed.env.getifOk
  THEN LET idx == SelectSeq([i \in 1..Len(listed.ifs) |-> i], Capable)
       IN [k \in 1..Len(idx) |-> listed.ifs[idx[k]]]
  ELSE <<>>
\* the device list: the entries that devices_cnt counts
DeviceList == SubSeq(ctx.devices_list, 1, ctx.devices_cnt)
\* an allocation of the last enumeration failed
AllocFailed ==
  /\ listed.env.getifOk
  /\ \E i \in 1..Len(listed.ifs) : Capable(i) /\ listed.env.reallocFailAt = i

\* C24 as stated: after every cancomm_devices_buildlist the device list is
\* the names of the reported interfaces that the Prober takes for CAN
\* devices, in the order of the report, and cancomm_devices_name(i) returns
\* the i-th of them.
C24_Original ==
  /\ last.op = "buildlist" => DeviceList = CapableNames
  /\ (last.op = "name" /\ listed # NoList) =>
       last.name = IF last.idx < Len(CapableNames)
                   THEN CapableNames[last.idx + 1] ELSE NullName
\* C24: after a cancomm_devices_buildlist whose allocations all succeeded
\* the device list is the names of the reported interfaces that the Prober
\* takes for CAN devices, in the order of the report, with nothing of an
\* earlier enumeration; after one with a failed allocation it is empty; and
\* cancomm_devices_name(i) returns the i-th entry of that list.
C24_ListReplaced ==
  LET expected == IF AllocFailed THEN <<>> ELSE CapableNames
  IN /\ last.op = "buildlist" => DeviceList = expected
     /\ (last.op = "name" /\ listed # NoList) =>
          last.name = IF last.idx < Len(expected)
                      THEN expected[last.idx + 1] ELSE NullName
\* an enumeration that was reported "eth0" and "can0" and kept "can0"
\* alone, which the lookup of index 0 returns
C24_Witness ==
  /\ last.op = "name" /\ last.idx = 0 /\ last.name = "can0"
  /\ listed.ifs = <<"eth0", "can0">> /\ listed.count = 1
  /\ DeviceList = <<"can0">>

\* C25: during cancomm_devices_buildlist every socket the Prober opened is
\* closed again, the sockets open after the call are those open before it,
\* and the context's handle is unchanged.
C25_ProbeSocketClosed ==
  [][last'.op = "buildlist" =>
       /\ OpenFds(fdtab') = OpenFds(fdtab)
       /\ ctx'.socket = ctx.socket
       /\ \A i \in 1..Len(last'.trace) :
            (last'.trace[i].call = "socket" /\ last'.trace[i].ret # -1) =>
              \E j \in (i + 1)..Len(last'.trace) :
                /\ last'.trace[j].call = "close"
                /\ last'.trace[j].fd = last'.trace[i].ret
                /\ last'.trace[j].ret = 0]_vars
\* an enumeration on a connected context that probed an interface of
\* another family, one whose query failed, and a CAN interface
C25_Witness ==
  /\ last.op = "buildlist" /\ Connected
  /\ listed.ifs = <<"eth0", "can0">> /\ listed.env.hwFailAt = 0
  /\ Cardinality(TraceIdx("close")) = 2
  /\ OpenFds(fdtab) = {Handle}

\* C26: transmit, receive, disconnect, cancomm_devices_buildlist and
\* cancomm_devices_name leave fd_enabled and connectTime of the context as
\* they were, and transmit and receive leave its socket, devices_cnt and
\* devices_list as they were too.
C26_FrameOfOperations ==
  [][/\ last'.op \in {"transmit", "receive", "disconnect", "buildlist", "name"} =>
          /\ ctx'.fd_enabled = ctx.fd_enabled
          /\ ctx'.connectTime = ctx.connectTime
     /\ last'.op \in {"transmit", "receive"} =>
          /\ ctx'.socket = ctx.socket
          /\ ctx'.devices_cnt = ctx.devices_cnt
          /\ ctx'.devices_list = ctx.devices_list]_vars
\* a disconnect of a context that was connected with CAN FD on at a time
\* other than 0 and that holds a device list
C26_Witness ==
  /\ last.op = "disconnect" /\ last.trace # <<>>
  /\ ctx.fd_enabled = CANCOMM_TRUE /\ ctx.connectTime # 0
  /\ ctx.devices_cnt = 2

\* C27: a connect whose socket() failed returns failure and makes no
\* later system call on the failed handle -1.
C27_NothingAfterFailedSocket ==
  last.op = "connect" =>
    \A i \in TraceIdx("socket") :
      last.trace[i].ret = -1 =>
        /\ last.ret = CANCOMM_FALSE
        /\ \A j \in (i + 1)..Len(last.trace) : last.trace[j].fd # -1

\* C28: in the frame that transmit writes, the EFF bit of can_id is set
\* exactly when ext was CANCOMM_TRUE, and the RTR and ERR bits are clear.
C28_MarkerBits ==
  (last.op = "transmit" /\ TraceIdx("write") # {}) =>
    /\ HasBit(last.frame.can_id, EffBit) <=> last.args.ext = CANCOMM_TRUE
    /\ ~HasBit(last.frame.can_id, RtrBit)
    /\ ~HasBit(last.frame.can_id, ErrBit)

\* C29: a call with a NULL context or a NULL pointer argument returns
\* failure, makes no system call and stores through no NULL pointer.
C29_NullArgsRejected ==
  last.nulls # {} =>
    /\ last.ret = CANCOMM_FALSE
    /\ last.trace = <<>>
    /\ last.deref = {}
    /\ ~last.trapped

\* C30: transmit and receive on a context whose socket is
\* CANCOMM_INVALID_SOCKET return CANCOMM_FALSE, make no system call and
\* write no output parameter.
C30_InvalidHandle ==
  (last.op \in {"transmit", "receive"} /\ ~Connected) =>
    /\ last.ret = CANCOMM_FALSE
    /\ last.trace = <<>>
    /\ last.out.written = {}
    /\ ~last.tsSet
\* a receive on a context that had been connected, or had failed to
\* connect, and holds no socket
C30_Witness ==
  /\ last.op = "receive" /\ ~Connected
  /\ connDev = "can0"
  /\ OpenFds(fdtab) = {}
====
